---- MODULE Spec2Model ----
(***************************************************************************)
(* The spike-to-current transformers of SpikingFlow/connection/transform.py *)
(* as state machines: one instance (BaseTransformer, SpikeCurrent,          *)
(* ExpDecayCurrent or STPTransformer), its forward() and reset() calls, and *)
(* the values they return or raise (Spec, SpecStateless, SpecValid); the    *)
(* same calls on tensor objects with identity (SpecObjects); and the        *)
(* training loop of event_driven/examples/tempotron-mnist.py (SpecScript).  *)
(*                                                                          *)
(* Numbers are exact rationals <<n, d>> (d > 0, lowest terms): the code's   *)
(* float arithmetic is modelled over the reals, rounding is not modelled.   *)
(* A value is either a Python scalar (the int 0 / the floats of __init__)   *)
(* or a 1-D tensor; a record [k, v] with k = "py" (v has one element),      *)
(* k = "t" (v has one element per unit) or k = "none" (nothing returned).   *)
(***************************************************************************)
EXTENDS Integers, Sequences, FiniteSets

\* ------------------------------------------------------------- bounds
\* Most calls (forward or reset) made on one instance.
MaxOps == 4

\* ------------------------------------------------- rational arithmetic
\* The primitives are functions: TLC evaluates a function's arguments once,
\* before the body.
Rat == Int \X Int

Abs(n) == IF n < 0 THEN -n ELSE n

GCD[a \in Nat, b \in Nat] == IF b = 0 THEN a ELSE GCD[b, a % b]

Norm[n \in Int, d \in Int] ==
    LET g == GCD[Abs(n), Abs(d)]
        s == IF d < 0 THEN -1 ELSE 1
    IN  <<s * (n \div g), s * (d \div g)>>

Zero == <<0, 1>>
One == <<1, 1>>

\* Each result is computed over the least common denominator, and products
\* are cancelled before multiplying, to stay within TLC's integers.
Sum[a \in Rat, b \in Rat, g \in Nat] ==
    Norm[a[1] * (b[2] \div g) + b[1] * (a[2] \div g), (a[2] \div g) * b[2]]
Product[a \in Rat, b \in Rat, g \in Nat, h \in Nat] ==
    Norm[(a[1] \div g) * (b[1] \div h), (a[2] \div h) * (b[2] \div g)]

Plus[a \in Rat, b \in Rat] == Sum[a, b, GCD[a[2], b[2]]]
Minus[a \in Rat, b \in Rat] == Sum[a, <<-b[1], b[2]>>, GCD[a[2], b[2]]]
Times[a \in Rat, b \in Rat] ==
    Product[a, b, GCD[Abs(a[1]), b[2]], GCD[Abs(b[1]), a[2]]]
\* a / b for b # 0
Over[a \in Rat, b \in Rat] ==
    Times[a, IF b[1] > 0 THEN <<b[2], b[1]>> ELSE <<-b[2], -b[1]>>]
Negate[a \in Rat] == <<-a[1], a[2]>>

Positive(a) == a[1] > 0

\* ------------------------------------------------ scalars and tensors
Py(r) == [k |-> "py", v |-> <<r>>]
Tensor(s) == [k |-> "t", v |-> s]
None == [k |-> "none", v |-> <<>>]

IsTensor(a) == a.k = "t"

\* The 1-D shape of a value: its number of units, 0 for a Python scalar.
Shape(a) == IF IsTensor(a) THEN Len(a.v) ELSE 0

\* torch broadcasting of two 1-D operands (a Python scalar broadcasts to
\* anything): the operands are compatible when the sizes agree or one is 1.
Compatible(a, b) ==
    \/ ~IsTensor(a)
    \/ ~IsTensor(b)
    \/ Len(a.v) = Len(b.v)
    \/ Len(a.v) = 1
    \/ Len(b.v) = 1

\* Element j of a value broadcast to a larger shape.
El(a, j) == IF Len(a.v) = 1 THEN a.v[1] ELSE a.v[j]

BroadcastLen(a, b) == IF Len(a.v) >= Len(b.v) THEN Len(a.v) ELSE Len(b.v)

\* `target += rhs` with rhs of n units: on a Python scalar it rebinds the
\* name to target + rhs; on a tensor it adds in place, which torch refuses
\* when the broadcast result does not have the target's shape.
InPlaceOK(target, n) == ~IsTensor(target) \/ Len(target.v) = n

\* Mutant of Float: every unit reads the first unit's spike.
Float_first_unit(in_spike) ==
    Tensor([j \in 1..Len(in_spike) |-> IF in_spike[1] THEN One ELSE Zero])

\* in_spike.float(): a bool tensor to a float tensor of 0.0 / 1.0
Float(in_spike) ==
    Tensor([j \in 1..Len(in_spike) |-> IF in_spike[j] THEN One ELSE Zero])

\* tensor.fill_(r): every element set to r, the shape kept
Fill(a, r) == Tensor([j \in 1..Len(a.v) |-> r])

\* What a call hands back: the instance after it, the value returned, and
\* the exception raised ("none" when the call returned).
Returned(obj, value) == [self |-> obj, ret |-> value, err |-> "none"]
Raised(obj, e) == [self |-> obj, ret |-> None, err |-> e]

\* ------------------------------------------------------ BaseTransformer
BaseTransformer_init == [cls |-> "BaseTransformer"]

\* Mutant of BaseTransformer_forward: the body is `pass`, the call returns
\* None and does nothing.
BaseTransformer_forward_pass(self, in_spike) == Returned(self, None)

\* Line 21: raise NotImplementedError
BaseTransformer_forward(self, in_spike) == Raised(self, "NotImplementedError")

\* Line 30: pass
BaseTransformer_reset(self) == self

\* --------------------------------------------------------- SpikeCurrent
SpikeCurrent_init(amplitude) ==
    [cls |-> "SpikeCurrent", amplitude |-> amplitude]

\* Mutant of SpikeCurrent_forward: the amplitude grows with every call.
SpikeCurrent_forward_growing(self, in_spike) ==
    LET in_spike_float == Float(in_spike)
        out == Tensor([j \in 1..Len(in_spike) |->
                         Times[in_spike_float.v[j], self.amplitude]])
    IN  Returned([self EXCEPT !.amplitude = Plus[self.amplitude, One]], out)

\* Line 49: in_spike.float() * self.amplitude, a new tensor; nothing is
\* assigned.
SpikeCurrent_forward(self, in_spike) ==
    LET in_spike_float == Float(in_spike)
    IN  Returned(self,
                 Tensor([j \in 1..Len(in_spike) |->
                           Times[in_spike_float.v[j], self.amplitude]]))

\* SpikeCurrent defines no reset: the call runs BaseTransformer.reset.
SpikeCurrent_reset(self) == BaseTransformer_reset(self)

\* ------------------------------------------------------ ExpDecayCurrent
ExpDecayCurrent_init(tau, amplitude) ==
    [cls |-> "ExpDecayCurrent", tau |-> tau, amplitude |-> amplitude,
     i |-> Py(Zero)]

\* Mutant of ExpDecayCurrent_unit: the decay is not gated by (1 - s).
ExpDecayCurrent_unit_ungated(i, in_spike_float, tau, amplitude) ==
    LET i_decay == Over[Negate[i], tau]
    IN  Plus[i, Plus[i_decay, Times[amplitude, in_spike_float]]]

\* Mutant of ExpDecayCurrent_unit: the decay has the wrong sign (i / tau).
ExpDecayCurrent_unit_growing(i, in_spike_float, tau, amplitude) ==
    LET i_decay == Over[i, tau]
    IN  Plus[i, Plus[Times[i_decay, Minus[One, in_spike_float]],
                     Times[amplitude, in_spike_float]]]

\* Lines 74-75 for one unit: the new self.i.
ExpDecayCurrent_unit(i, in_spike_float, tau, amplitude) ==
    LET i_decay == Over[Negate[i], tau]
    IN  Plus[i, Plus[Times[i_decay, Minus[One, in_spike_float]],
                     Times[amplitude, in_spike_float]]]

\* With tau = 0 the division is always the Python one (0 / 0 raises): self.i
\* only becomes a tensor in a forward() that got past it.
ExpDecayCurrent_forward(self, in_spike) ==
    LET in_spike_float == Float(in_spike)
        n == BroadcastLen(self.i, in_spike_float)
    IN  IF self.tau = Zero
        THEN Raised(self, "ZeroDivisionError")
        ELSE IF ~Compatible(self.i, in_spike_float) \/ ~InPlaceOK(self.i, n)
        THEN Raised(self, "RuntimeError")
        ELSE
        LET i == Tensor([j \in 1..n |->
                    ExpDecayCurrent_unit(El(self.i, j), El(in_spike_float, j),
                                         self.tau, self.amplitude)])
        IN  Returned([self EXCEPT !.i = i], i)

ExpDecayCurrent_reset(self) == [self EXCEPT !.i = Py(Zero)]

\* ------------------------------------------------------- STPTransformer
STPTransformer_init(u_base, tau_f, tau_d) ==
    [cls |-> "STPTransformer", u_base |-> u_base, tau_f |-> tau_f,
     tau_d |-> tau_d, x |-> Py(One), u |-> Py(u_base)]

\* Lines 120-121 for one unit: the new self.x, from the u of before the call.
STPTransformer_x(x, u, in_spike_float, tau_d) ==
    LET x_decay == Over[Minus[One, x], tau_d]
    IN  Plus[x, Minus[x_decay, Times[Times[x, in_spike_float], u]]]

\* Mutant of STPTransformer_u: the facilitation on a spike is u_base, not
\* scaled by the room 1 - u that is left.
STPTransformer_u_unsaturated(u, in_spike_float, u_base, tau_f) ==
    LET u_decay == Over[Minus[u_base, u], tau_f]
    IN  Plus[u, Plus[u_decay, Times[u_base, in_spike_float]]]

\* Lines 122-123 for one unit: the new self.u.
STPTransformer_u(u, in_spike_float, u_base, tau_f) ==
    LET u_decay == Over[Minus[u_base, u], tau_f]
    IN  Plus[u, Plus[u_decay,
                     Times[Times[u_base, Minus[One, u]], in_spike_float]]]

\* Line 124 for one unit, from the updated self.u and self.x.
STPTransformer_out(u, x, in_spike_float) == Times[Times[u, x], in_spike_float]

\* Lines 122-124, entered with self.x already updated. With tau_f = 0 the
\* division is the Python one: self.u never became a tensor.
STPTransformer_forward_u(self, in_spike_float) ==
    LET n == BroadcastLen(self.u, in_spike_float)
    IN  IF self.tau_f = Zero
        THEN Raised(self, "ZeroDivisionError")
        ELSE IF ~Compatible(self.u, in_spike_float) \/ ~InPlaceOK(self.u, n)
        THEN Raised(self, "RuntimeError")
        ELSE
        LET u == Tensor([j \in 1..n |->
                    STPTransformer_u(El(self.u, j), El(in_spike_float, j),
                                     self.u_base, self.tau_f)])
        IN  IF ~Compatible(u, self.x)
            THEN Raised([self EXCEPT !.u = u], "RuntimeError")
            ELSE Returned([self EXCEPT !.u = u],
                     Tensor([j \in 1..BroadcastLen(u, self.x) |->
                         STPTransformer_out(El(u, j), El(self.x, j),
                                            El(in_spike_float, j))]))

\* Mutant of STPTransformer_forward: the two updates are swapped, so the
\* x-update reads the u of after the step.
STPTransformer_forward_u_first(self, in_spike) ==
    LET in_spike_float == Float(in_spike)
        r == STPTransformer_forward_u(self, in_spike_float)
    IN  IF self.tau_d = Zero
        THEN Raised(self, "ZeroDivisionError")
        ELSE IF r.err # "none" \/ ~InPlaceOK(self.x, Len(r.self.u.v))
        THEN Raised(self, "RuntimeError")
        ELSE
        LET u == r.self.u
            x == Tensor([j \in 1..Len(u.v) |->
                    STPTransformer_x(El(self.x, j), u.v[j],
                                     El(in_spike_float, j), self.tau_d)])
        IN  Returned([r.self EXCEPT !.x = x],
                     Tensor([j \in 1..Len(u.v) |->
                         STPTransformer_out(u.v[j], x.v[j],
                                            El(in_spike_float, j))]))

\* With tau_d = 0 the division is the Python one ((1.0 - 1.0) / 0.0 raises):
\* self.x only becomes a tensor in a forward() that got past it.
STPTransformer_forward(self, in_spike) ==
    LET in_spike_float == Float(in_spike)
        n == BroadcastLen(self.x, in_spike_float)
    IN  IF self.tau_d = Zero
        THEN Raised(self, "ZeroDivisionError")
        ELSE IF \/ ~Compatible(self.x, in_spike_float)
                \/ ~(~IsTensor(self.u) \/ Len(self.u.v) = n \/ Len(self.u.v) = 1)
                \/ ~InPlaceOK(self.x, n)
        THEN Raised(self, "RuntimeError")
        ELSE
        LET x == Tensor([j \in 1..n |->
                    STPTransformer_x(El(self.x, j), El(self.u, j),
                                     El(in_spike_float, j), self.tau_d)])
        IN  STPTransformer_forward_u([self EXCEPT !.x = x], in_spike_float)

\* Mutant of STPTransformer_reset: u is left as it is.
STPTransformer_reset_x_only(self) ==
    [self EXCEPT !.x = IF IsTensor(self.x) THEN Fill(self.x, One) ELSE self.x]

\* Mutant of STPTransformer_reset: x is rebound to the float 1.0 and the
\* second test is an elif, so one call resets x and the next one u.
STPTransformer_reset_elif(self) ==
    IF IsTensor(self.x) THEN [self EXCEPT !.x = Py(One)]
    ELSE IF IsTensor(self.u) THEN [self EXCEPT !.u = Fill(self.u, self.u_base)]
    ELSE self

STPTransformer_reset(self) ==
    [self EXCEPT
        !.x = IF IsTensor(self.x) THEN Fill(self.x, One) ELSE self.x,
        !.u = IF IsTensor(self.u) THEN Fill(self.u, self.u_base) ELSE self.u]

\* ------------------------------------------------------ method dispatch
forward(obj, in_spike) ==
    CASE obj.cls = "BaseTransformer" -> BaseTransformer_forward(obj, in_spike)
      [] obj.cls = "SpikeCurrent" -> SpikeCurrent_forward(obj, in_spike)
      [] obj.cls = "ExpDecayCurrent" -> ExpDecayCurrent_forward(obj, in_spike)
      [] OTHER -> STPTransformer_forward(obj, in_spike)

reset(obj) ==
    CASE obj.cls = "BaseTransformer" -> BaseTransformer_reset(obj)
      [] obj.cls = "SpikeCurrent" -> SpikeCurrent_reset(obj)
      [] obj.cls = "ExpDecayCurrent" -> ExpDecayCurrent_reset(obj)
      [] OTHER -> STPTransformer_reset(obj)

\* ------------------------------------------------------------ the inputs
\* Constructor arguments tried (the code accepts any number).
TauSet == {<<-1, 1>>, <<0, 1>>, <<2, 1>>, <<3, 1>>}
AmplitudeSet == {<<1, 1>>, <<5, 2>>}
UBaseSet == {<<1, 2>>}
TauFSet == {<<0, 1>>, <<2, 1>>}
TauDSet == {<<-1, 1>>, <<0, 1>>, <<2, 1>>, <<3, 1>>}

\* Spike batches tried: bool tensors of shape [1], [2] and [3]
Batches ==
    {<<FALSE>>, <<TRUE>>, <<TRUE, FALSE>>, <<FALSE, TRUE>>, <<TRUE, TRUE>>,
     <<TRUE, FALSE, TRUE>>}

Instances ==
    {ExpDecayCurrent_init(t, a) : t \in TauSet, a \in AmplitudeSet}
    \cup {STPTransformer_init(b, f, d) :
             b \in UBaseSet, f \in TauFSet, d \in TauDSet}

\* ------------------------------------------------------------- the state
VARIABLES
    self,       \* the transformer instance
    ret,        \* what the last call returned (None for reset or a raise)
    err,        \* the exception the last call raised, "none" if it returned
    op,         \* the last call: "init", "forward" or "reset"
    arg,        \* the spike batch of the last forward()
    pre,        \* the instance as it was before the last call
    op_before,  \* the call before the last one
    run,        \* history, per unit of an ExpDecayCurrent: the number of
                \* no-spike steps since the unit's spike on i = 0 (fresh or
                \* just reset), -1 when it had no such spike or a later one
    nops        \* calls made so far

vars == <<self, ret, err, op, arg, pre, op_before, run, nops>>

\* The same instances seen as objects: which tensor object each name is bound
\* to, for the claims about what a call shares with its caller.
VARIABLES
    heap,       \* the tensor objects made so far; an object's id is its index
    this,       \* the instance, its state fields holding ids (0: the Python
                \* number of __init__ / reset, no tensor)
    in_ref,     \* id of the spike batch passed to the last forward()
    out_ref,    \* id of the tensor the last forward() returned, 0 if none
    held,       \* ids of the tensors returned to the caller so far
    raised,     \* the exception the last forward() raised, "none" if none
    last,       \* the last operation: "init", "forward", "reset", "write"
    before,     \* the heap as the last operation started
    calls       \* operations so far

objects == <<heap, this, in_ref, out_ref, held, raised, last, before, calls>>

\* The value of each group while another group's specification runs.
IdleTransformer ==
    /\ self = [cls |-> "none"]
    /\ ret = None
    /\ err = "none"
    /\ op = "idle"
    /\ arg = <<>>
    /\ pre = self
    /\ op_before = "idle"
    /\ run = <<>>
    /\ nops = 0

IdleObjects ==
    /\ heap = <<>>
    /\ this = [cls |-> "none"]
    /\ in_ref = 0
    /\ out_ref = 0
    /\ held = {}
    /\ raised = "none"
    /\ last = "idle"
    /\ before = <<>>
    /\ calls = 0

\* The example script event_driven/examples/tempotron-mnist.py.
VARIABLES
    pc,             \* where main() is: "train" (top of the loop of line 68),
                    \* "eval" (top of the loop of line 87) or "done"
    batch_size,     \* the inputs of lines 24 and 27
    train_epoch,
    epoch,          \* epochs finished
    batch_index,    \* batches taken from the loader being iterated
    weight,         \* the net's parameter
    grad,           \* its .grad (0 while None)
    loss_grad,      \* history: the gradient of the last iteration's loss
    applied,        \* history: the gradient the last optimizer.step() used
    train_times,
    correct_num,
    img_num,
    logged          \* the last 'test_acc' record written

script ==
    <<pc, batch_size, train_epoch, epoch, batch_index, weight, grad, loss_grad,
      applied, train_times, correct_num, img_num, logged>>

NoRecord == [tag |-> "none", correct |-> 0, total |-> 0, loader |-> "none"]

IdleScript ==
    /\ pc = "idle"
    /\ batch_size = 0
    /\ train_epoch = 0
    /\ epoch = 0
    /\ batch_index = 0
    /\ weight = 0
    /\ grad = 0
    /\ loss_grad = 0
    /\ applied = 0
    /\ train_times = 0
    /\ correct_num = 0
    /\ img_num = 0
    /\ logged = NoRecord

\* The history `run` after a forward() that handed back r.
NextRun(old, obj, in_spike, r) ==
    IF r.err # "none" THEN old
    ELSE IF obj.cls # "ExpDecayCurrent" THEN <<>>
    ELSE [j \in 1..Len(r.self.i.v) |->
            IF (IF Len(in_spike) = 1 THEN in_spike[1] ELSE in_spike[j])
            THEN (IF IsTensor(obj.i) THEN -1 ELSE 0)
            ELSE (IF IsTensor(obj.i) /\ old[j] >= 0 THEN old[j] + 1 ELSE -1)]

Init ==
    /\ self \in Instances
    /\ ret = None
    /\ err = "none"
    /\ op = "init"
    /\ arg = <<>>
    /\ pre = self
    /\ op_before = "init"
    /\ run = <<>>
    /\ nops = 0
    /\ IdleObjects
    /\ IdleScript

Forward ==
    \E in_spike \in Batches :
        LET r == forward(self, in_spike)
        IN  /\ nops < MaxOps
            /\ self' = r.self
            /\ ret' = r.ret
            /\ err' = r.err
            /\ op' = "forward"
            /\ arg' = in_spike
            /\ pre' = self
            /\ op_before' = op
            /\ run' = NextRun(run, self, in_spike, r)
            /\ nops' = nops + 1
            /\ UNCHANGED <<objects, script>>

Reset ==
    /\ nops < MaxOps
    /\ self' = reset(self)
    /\ ret' = None
    /\ err' = "none"
    /\ op' = "reset"
    /\ arg' = <<>>
    /\ pre' = self
    /\ op_before' = op
    /\ run' = <<>>
    /\ nops' = nops + 1
    /\ UNCHANGED <<objects, script>>

Next == Forward \/ Reset

Spec == Init /\ [][Next]_vars

\* =============================================================== claims
\* Helpers of the claims: the spike unit j received in the last forward()
\* (a [1] batch broadcasts), the unit shape an instance holds (0: none), the
\* instance a constructor call with the same arguments gives.
Spike(j) == IF Len(arg) = 1 THEN arg[1] ELSE arg[j]

StateShape(obj) ==
    IF obj.cls = "ExpDecayCurrent" THEN Shape(obj.i) ELSE Shape(obj.x)

Fresh(obj) ==
    IF obj.cls = "ExpDecayCurrent"
    THEN ExpDecayCurrent_init(obj.tau, obj.amplitude)
    ELSE STPTransformer_init(obj.u_base, obj.tau_f, obj.tau_d)

Stepped == op = "forward" /\ err = "none"

\* The instance was built with the time constants its documentation asks for.
ValidTau(obj) ==
    IF obj.cls = "ExpDecayCurrent"
    THEN Positive(obj.tau)
    ELSE Positive(obj.tau_f) /\ Positive(obj.tau_d)

\* C1: on every ExpDecayCurrent step, a unit that receives a spike gets the
\* returned current amplitude, whatever its current was before the step.
C1_SpikeReturnsAmplitude ==
    (self.cls = "ExpDecayCurrent" /\ ValidTau(self) /\ Stepped) =>
        \A j \in 1..Len(ret.v) : Spike(j) => ret.v[j] = self.amplitude

\* C3: once the unit shape is established, a step whose spike batch has
\* another shape (a broadcastable one included) raises and leaves the state
\* as it was.
C3_ShapeMismatchRejected ==
    (/\ ValidTau(self)
     /\ op = "forward"
     /\ StateShape(pre) # 0
     /\ Len(arg) # StateShape(pre)) => (err # "none" /\ self = pre)

\* C4: no instance with a non-positive time constant reaches a step call
\* (its construction fails).
C4_NoStepWithNonPositiveTau ==
    op = "forward" => ValidTau(self)

\* C9: reset() keeps the established unit shape, so a step after it with a
\* batch of another shape is still an error.
C9_ResetKeepsShape ==
    (ValidTau(self) /\ op = "reset" /\ StateShape(pre) # 0) =>
        /\ StateShape(self) = StateShape(pre)
        /\ \A b \in Batches :
               Len(b) # StateShape(pre) => forward(self, b).err # "none"

\* ---------------------------------------------------------------- C2
\* Every unit holds the construction-time value: i = 0, x = 1.0, u = u_base.
InitialValues(obj) ==
    IF obj.cls = "ExpDecayCurrent"
    THEN \A j \in 1..Len(obj.i.v) : obj.i.v[j] = Zero
    ELSE /\ \A j \in 1..Len(obj.x.v) : obj.x.v[j] = One
         /\ \A j \in 1..Len(obj.u.v) : obj.u.v[j] = obj.u_base

\* forward(b) on obj and on a freshly constructed instance with the same
\* arguments return (or raise) the same and leave the two instances in the
\* same state, so that every later call on them agrees too.
AsFresh(obj, b) ==
    LET r == forward(obj, b)
        f == forward(Fresh(obj), b)
    IN  r.err = f.err /\ r.ret = f.ret /\ r.self = f.self

\* C2 as stated: after reset() the state has the initial values and any
\* following spike batches give what a fresh instance gives.
C2_ResetIsFresh ==
    (ValidTau(self) /\ op = "reset") =>
        InitialValues(self) /\ \A b \in Batches : AsFresh(self, b)

\* C2 amended: after reset() the state has the initial values, and the
\* following spike batches give what a fresh instance gives when the first of
\* them has the unit shape the instance holds (STPTransformer.reset() keeps
\* the established shape; ExpDecayCurrent.reset() holds none).
C2_ResetIsFreshForHeldShape ==
    op = "reset" =>
        /\ InitialValues(self)
        /\ \A b \in Batches :
               (StateShape(self) = 0 \/ Len(b) = StateShape(self)) =>
                   AsFresh(self, b)

C2_Witness ==
    /\ op = "reset"
    /\ self.cls = "STPTransformer"
    /\ ValidTau(self)
    /\ StateShape(self) = 2
    /\ ~InitialValues(pre)

\* ---------------------------------------------------------------- C5
\* C5: a STPTransformer step gives, per unit, x_next = x + (1 - x)/tau_d -
\* x*s*u with the u of before the step, u_next = u + (u_base - u)/tau_f +
\* u_base*(1 - u)*s, and returns u_next*x_next*s; the first step of a fresh
\* instance on a spike returns (u_base + u_base*(1 - u_base))*(1 - u_base),
\* and a unit without a spike gets 0.
C5_STPUpdateOrder ==
    (self.cls = "STPTransformer" /\ Stepped) =>
        \A j \in 1..Len(ret.v) :
            LET s == IF Spike(j) THEN One ELSE Zero
                x == El(pre.x, j)
                u == El(pre.u, j)
                b == self.u_base
                x_next == Minus[Plus[x, Over[Minus[One, x], self.tau_d]],
                                Times[Times[x, s], u]]
                u_next == Plus[Plus[u, Over[Minus[b, u], self.tau_f]],
                               Times[Times[b, Minus[One, u]], s]]
            IN  /\ self.x.v[j] = x_next
                /\ self.u.v[j] = u_next
                /\ ret.v[j] = Times[Times[u_next, x_next], s]
                /\ ~Spike(j) => ret.v[j] = Zero
                /\ (Spike(j) /\ StateShape(pre) = 0) =>
                       ret.v[j] = Times[Plus[b, Times[b, Minus[One, b]]],
                                        Minus[One, b]]

C5_Witness ==
    /\ self.cls = "STPTransformer"
    /\ Stepped
    /\ StateShape(pre) = 2
    /\ \E j \in 1..2 :
           /\ Spike(j)
           /\ pre.u.v[j] # self.u.v[j]
           /\ pre.u.v[j] # self.u_base
           /\ ret.v[j] # Zero

Power[r \in Rat, k \in Nat] == IF k = 0 THEN One ELSE Times[r, Power[r, k - 1]]

\* C7: from i = 0 (fresh or just reset) a spike step returns amplitude, and
\* after k further no-spike steps the current is amplitude * (1 - 1/tau)^k.
C7_DecayLaw ==
    (self.cls = "ExpDecayCurrent" /\ IsTensor(self.i)) =>
        \A j \in 1..Len(run) :
            run[j] >= 0 =>
                LET law == Times[self.amplitude,
                                 Power[Minus[One, Over[One, self.tau]], run[j]]]
                IN  /\ self.i.v[j] = law
                    /\ Stepped => ret.v[j] = law

C7_Witness ==
    /\ self.cls = "ExpDecayCurrent"
    /\ ValidTau(self)
    /\ Stepped
    /\ \E j \in 1..Len(run) : run[j] >= 3 /\ ret.v[j] # self.amplitude

\* ---------------------------------------------------------------- C8
\* C8: a reset() right after a reset() leaves the instance as the first one
\* left it (so every later step behaves as after a single reset).
C8_ResetIdempotent ==
    (op = "reset" /\ op_before = "reset") => self = pre

C8_Witness ==
    /\ op = "reset"
    /\ op_before = "reset"
    /\ self.cls = "STPTransformer"
    /\ StateShape(self) = 2
    /\ nops >= 3

\* --------------------------------------------------------------- C10
\* The single-unit instance that holds unit j of obj.
Pick(a, j) == IF IsTensor(a) THEN Tensor(<<El(a, j)>>) ELSE a

Unit(obj, j) ==
    IF obj.cls = "ExpDecayCurrent"
    THEN [obj EXCEPT !.i = Pick(obj.i, j)]
    ELSE [obj EXCEPT !.x = Pick(obj.x, j), !.u = Pick(obj.u, j)]

\* C10: a call on a two-unit instance does to each unit what the same call,
\* with that unit's spike alone, does to a single-unit instance holding that
\* unit: same output, same exception, same new state. Both start from the
\* same constructor state, so their runs agree step by step.
C10_BatchIndependence ==
    /\ (op = "forward" /\ Len(arg) = 2 /\ StateShape(pre) \in {0, 2}) =>
           \A j \in 1..2 :
               LET r == forward(Unit(pre, j), <<arg[j]>>)
               IN  /\ r.err = err
                   /\ r.self = Unit(self, j)
                   /\ err = "none" => r.ret = Pick(ret, j)
    /\ (op = "reset" /\ StateShape(pre) \in {0, 2}) =>
           \A j \in 1..2 : reset(Unit(pre, j)) = Unit(self, j)

C10_Witness ==
    /\ Stepped
    /\ Len(arg) = 2
    /\ arg[1] # arg[2]
    /\ StateShape(pre) = 2
    /\ pre.cls = "STPTransformer"
    /\ ret.v[1] # ret.v[2]
    /\ nops >= 3

\* ============================================ the stateless transformers
\* Amplitudes tried for SpikeCurrent (the code accepts any number).
SpikeAmplitudeSet == {<<0, 1>>, <<1, 1>>, <<5, 2>>, <<-1, 1>>}

StatelessInstances ==
    {BaseTransformer_init}
    \cup {SpikeCurrent_init(a) : a \in SpikeAmplitudeSet}

InitStateless ==
    /\ self \in StatelessInstances
    /\ ret = None
    /\ err = "none"
    /\ op = "init"
    /\ arg = <<>>
    /\ pre = self
    /\ op_before = "init"
    /\ run = <<>>
    /\ nops = 0
    /\ IdleObjects
    /\ IdleScript

\* A BaseTransformer or a SpikeCurrent under the same calls.
SpecStateless == InitStateless /\ [][Next]_vars

\* C11: SpikeCurrent is stateless. After any earlier calls the instance is as
\* constructed; forward() returns, for each unit, amplitude on a spike and 0
\* without one, and neither forward() nor reset() changes the instance.
C11_SpikeCurrentStateless ==
    self.cls = "SpikeCurrent" =>
        /\ self = SpikeCurrent_init(self.amplitude)
        /\ self = pre
        /\ op = "forward" =>
              /\ err = "none"
              /\ ret = Tensor([j \in 1..Len(arg) |->
                                 IF arg[j] THEN self.amplitude ELSE Zero])
        /\ op = "reset" => err = "none" /\ ret = None

\* A forward() with a spike and a silent unit, after a forward() and more.
C11_Witness ==
    /\ self.cls = "SpikeCurrent"
    /\ self.amplitude = <<5, 2>>
    /\ op = "forward"
    /\ op_before # "init"
    /\ nops >= 3
    /\ arg = <<TRUE, FALSE>>
    /\ ret = Tensor(<<(<<5, 2>>), Zero>>)

\* C12: forward() on the abstract base always raises: it returns no value
\* and never passes silently; the base reset() succeeds and changes nothing.
C12_BaseForwardRaises ==
    self.cls = "BaseTransformer" =>
        /\ op = "forward" =>
              err = "NotImplementedError" /\ ret = None /\ self = pre
        /\ op = "reset" => err = "none" /\ self = pre

\* A forward() on the base that raised, after a reset() that passed.
C12_Witness ==
    /\ self.cls = "BaseTransformer"
    /\ op = "forward"
    /\ op_before = "reset"
    /\ err = "NotImplementedError"

\* ================================================= valid parameters only
\* Constructor arguments the specification calls valid: time constants > 0
\* (for STPTransformer >= 1, with 0 <= u_base <= 1), the boundaries included.
ValidTauSet == {<<1, 4>>, <<1, 2>>, <<1, 1>>, <<2, 1>>}
ValidUBaseSet == {<<0, 1>>, <<1, 2>>, <<1, 1>>}
ValidTauFSet == {<<1, 1>>, <<2, 1>>}
ValidTauDSet == {<<1, 1>>, <<3, 1>>}

ValidInstances ==
    {ExpDecayCurrent_init(t, One) : t \in ValidTauSet}
    \cup {STPTransformer_init(b, f, d) :
             b \in ValidUBaseSet, f \in ValidTauFSet, d \in ValidTauDSet}

InitValid ==
    /\ self \in ValidInstances
    /\ ret = None
    /\ err = "none"
    /\ op = "init"
    /\ arg = <<>>
    /\ pre = self
    /\ op_before = "init"
    /\ run = <<>>
    /\ nops = 0
    /\ IdleObjects
    /\ IdleScript

SpecValid == InitValid /\ [][Next]_vars

\* a <= b for rationals with positive denominators
Leq(a, b) == a[1] * b[2] <= b[1] * a[2]

Between(lo, a, hi) == Leq(lo, a) /\ Leq(a, hi)

MagnitudeLeq(a, b) == Abs(a[1]) * b[2] <= Abs(b[1]) * a[2]

\* C15: for an STPTransformer with 0 <= u_base <= 1, tau_f >= 1 and
\* tau_d >= 1, after any calls every unit has u_base <= u <= 1 and
\* 0 <= x <= 1, and every current a forward() returns lies in [0, 1].
C15_STPBounded ==
    (/\ self.cls = "STPTransformer"
     /\ Between(Zero, self.u_base, One)
     /\ Leq(One, self.tau_f)
     /\ Leq(One, self.tau_d)) =>
        /\ \A j \in 1..Len(self.u.v) : Between(self.u_base, self.u.v[j], One)
        /\ \A j \in 1..Len(self.x.v) : Between(Zero, self.x.v[j], One)
        /\ Stepped => \A j \in 1..Len(ret.v) : Between(Zero, ret.v[j], One)

\* A third spike in a row on a unit: u strictly above u_base and below 1,
\* x strictly between 0 and 1, and a current strictly inside (0, 1).
C15_Witness ==
    /\ self.cls = "STPTransformer"
    /\ Stepped
    /\ nops >= 3
    /\ arg[1]
    /\ ~Leq(self.u.v[1], self.u_base)
    /\ ~Leq(One, self.u.v[1])
    /\ ~Leq(self.x.v[1], Zero)
    /\ ~Leq(One, self.x.v[1])
    /\ ~Leq(ret.v[1], Zero)
    /\ ~Leq(One, ret.v[1])

\* C16: for an ExpDecayCurrent with tau > 0, a forward() never increases the
\* magnitude of the current of a unit that received no spike.
C16_NoSpikeNeverGrows ==
    (/\ self.cls = "ExpDecayCurrent"
     /\ Positive(self.tau)
     /\ Stepped
     /\ IsTensor(pre.i)) =>
        \A j \in 1..Len(self.i.v) :
            ~Spike(j) => MagnitudeLeq(self.i.v[j], El(pre.i, j))

\* ==================================================== tensors as objects
\* Most operations (forward, reset, a write by the caller) on one instance.
MaxCalls == 3

\* A tensor object: its dtype and its elements (a bool tensor holds 0 / 1).
FloatTensor(v) == [dtype |-> "float", v |-> v]

BoolTensor(in_spike) ==
    [dtype |-> "bool",
     v |-> [j \in 1..Len(in_spike) |-> IF in_spike[j] THEN One ELSE Zero]]

Bools(t) == [j \in 1..Len(t.v) |-> t.v[j] = One]

\* Mutant of ToFloat: the conversion is done in place, on the tensor given.
ToFloat_in_place(h, ref) ==
    [heap |-> [h EXCEPT ![ref] = FloatTensor(h[ref].v)], ref |-> ref]

\* tensor.float(): the tensor itself when it is a float tensor already, else
\* a new float tensor with the same elements; the tensor given is only read.
ToFloat(h, ref) ==
    IF h[ref].dtype = "float"
    THEN [heap |-> h, ref |-> ref]
    ELSE [heap |-> Append(h, FloatTensor(h[ref].v)), ref |-> Len(h) + 1]

\* `name += rhs` for a name bound to ref, the sum having the elements v: a
\* Python number has no in-place add, the name is rebound to a new tensor;
\* a tensor is added to in place and the name stays bound to it.
IAdd(h, ref, v) ==
    IF ref = 0
    THEN [heap |-> Append(h, FloatTensor(v)), ref |-> Len(h) + 1]
    ELSE [heap |-> [h EXCEPT ![ref] = FloatTensor(v)], ref |-> ref]

\* tensor.fill_ and the like: the elements of the object ref replaced.
Store(h, ref, v) == IF ref = 0 THEN h ELSE [h EXCEPT ![ref] = FloatTensor(v)]

\* The value a state field holds: the tensor it is bound to, or the Python
\* number py that __init__ / reset assigned.
Deref(h, ref, py) == IF ref = 0 THEN py ELSE Tensor(h[ref].v)

\* The instance by value.
Value(h, t) ==
    CASE t.cls = "SpikeCurrent" -> SpikeCurrent_init(t.amplitude)
      [] t.cls = "ExpDecayCurrent" ->
            [ExpDecayCurrent_init(t.tau, t.amplitude)
                EXCEPT !.i = Deref(h, t.i, Py(Zero))]
      [] OTHER ->
            [STPTransformer_init(t.u_base, t.tau_f, t.tau_d)
                EXCEPT !.x = Deref(h, t.x, Py(One)),
                       !.u = Deref(h, t.u, Py(t.u_base))]

Outcome(h, t, out, e) == [heap |-> h, this |-> t, out |-> out, err |-> e]

\* SpikeCurrent.forward: the product is a new tensor.
SpikeCurrent_forward_objects(h, t, in_spike) ==
    LET f == ToFloat(h, in_spike)
        r == SpikeCurrent_forward(Value(h, t), Bools(f.heap[f.ref]))
    IN  Outcome(Append(f.heap, FloatTensor(r.ret.v)), t, Len(f.heap) + 1,
                "none")

\* ExpDecayCurrent.forward: self.i += ... and return self.i. The tensor
\* returned is the object self.i is bound to.
ExpDecayCurrent_forward_objects(h, t, in_spike) ==
    LET f == ToFloat(h, in_spike)
        r == ExpDecayCurrent_forward(Value(h, t), Bools(f.heap[f.ref]))
        a == IAdd(f.heap, t.i, r.self.i.v)
    IN  IF r.err # "none"
        THEN Outcome(f.heap, t, 0, r.err)
        ELSE Outcome(a.heap, [t EXCEPT !.i = a.ref], a.ref, "none")

\* STPTransformer.forward: self.x += ..., self.u += ..., and the product
\* self.u * self.x * in_spike_float returned, a new tensor. A call that
\* raises in the u-update has updated x already.
STPTransformer_forward_objects(h, t, in_spike) ==
    LET f == ToFloat(h, in_spike)
        val == Value(h, t)
        r == STPTransformer_forward(val, Bools(f.heap[f.ref]))
        ax == IF r.self.x = val.x
              THEN [heap |-> f.heap, ref |-> t.x]
              ELSE IAdd(f.heap, t.x, r.self.x.v)
        au == IF r.self.u = val.u
              THEN [heap |-> ax.heap, ref |-> t.u]
              ELSE IAdd(ax.heap, t.u, r.self.u.v)
        after == [t EXCEPT !.x = ax.ref, !.u = au.ref]
    IN  IF r.err # "none"
        THEN Outcome(au.heap, after, 0, r.err)
        ELSE Outcome(Append(au.heap, FloatTensor(r.ret.v)), after,
                     Len(au.heap) + 1, "none")

forward_objects(h, t, in_spike) ==
    CASE t.cls = "SpikeCurrent" -> SpikeCurrent_forward_objects(h, t, in_spike)
      [] t.cls = "ExpDecayCurrent" ->
            ExpDecayCurrent_forward_objects(h, t, in_spike)
      [] OTHER -> STPTransformer_forward_objects(h, t, in_spike)

\* reset(): SpikeCurrent's does nothing, ExpDecayCurrent's rebinds self.i to
\* the int 0, STPTransformer's fills the tensors x and u are bound to.
reset_objects(h, t) ==
    CASE t.cls = "SpikeCurrent" -> Outcome(h, t, 0, "none")
      [] t.cls = "ExpDecayCurrent" -> Outcome(h, [t EXCEPT !.i = 0], 0, "none")
      [] OTHER ->
            LET r == STPTransformer_reset(Value(h, t))
            IN  Outcome(Store(Store(h, t.x, r.x.v), t.u, r.u.v), t, 0, "none")

ObjectInstances ==
    {[cls |-> "SpikeCurrent", amplitude |-> <<5, 2>>]}
    \cup {[cls |-> "ExpDecayCurrent", tau |-> tau, amplitude |-> One, i |-> 0] :
             tau \in {Zero, <<2, 1>>}}
    \cup {[cls |-> "STPTransformer", u_base |-> <<1, 2>>, tau_f |-> tau_f,
           tau_d |-> <<2, 1>>, x |-> 0, u |-> 0] : tau_f \in {Zero, <<2, 1>>}}

InitObjects ==
    /\ IdleTransformer
    /\ IdleScript
    /\ heap = <<>>
    /\ this \in ObjectInstances
    /\ in_ref = 0
    /\ out_ref = 0
    /\ held = {}
    /\ raised = "none"
    /\ last = "init"
    /\ before = <<>>
    /\ calls = 0

\* The caller makes a spike batch and calls forward() with it; it holds on
\* to what the call returns.
CallForward ==
    \E in_spike \in Batches :
        \E started \in {Append(heap, BoolTensor(in_spike))} :
            \E r \in {forward_objects(started, this, Len(started))} :
                /\ calls < MaxCalls
                /\ heap' = r.heap
                /\ this' = r.this
                /\ in_ref' = Len(started)
                /\ out_ref' = r.out
                /\ held' = held \cup ({r.out} \ {0})
                /\ raised' = r.err
                /\ last' = "forward"
                /\ before' = started
                /\ calls' = calls + 1
                /\ UNCHANGED <<vars, script>>

CallReset ==
    LET r == reset_objects(heap, this)
    IN  /\ calls < MaxCalls
        /\ heap' = r.heap
        /\ this' = r.this
        /\ in_ref' = 0
        /\ out_ref' = 0
        /\ raised' = "none"
        /\ last' = "reset"
        /\ before' = heap
        /\ calls' = calls + 1
        /\ UNCHANGED <<held, vars, script>>

\* The caller changes a batch it was returned, in place (out.zero_()).
CallerWrites ==
    \E ref \in held :
        /\ calls < MaxCalls
        /\ heap' = Store(heap, ref, [j \in 1..Len(heap[ref].v) |-> Zero])
        /\ in_ref' = 0
        /\ out_ref' = ref
        /\ raised' = "none"
        /\ last' = "write"
        /\ before' = heap
        /\ calls' = calls + 1
        /\ UNCHANGED <<this, held, vars, script>>

NextObjects == CallForward \/ CallReset \/ CallerWrites

SpecObjects == InitObjects /\ [][NextObjects]_<<vars, objects, script>>

\* C13: forward() leaves its spike-batch argument as it was, whether it
\* returns or raises: same dtype, same elements.
C13_ArgumentUnchanged ==
    last = "forward" => heap[in_ref] = before[in_ref]

\* A forward() that updated the state tensor in place and returned.
C13_Witness ==
    /\ last = "forward"
    /\ raised = "none"
    /\ this.cls = "ExpDecayCurrent"
    /\ this.i <= Len(before)
    /\ heap[this.i] # before[this.i]
    /\ heap[in_ref] = BoolTensor(<<TRUE, FALSE>>)

\* C14: what forward() returns is not shared with the instance's state: a
\* forward() or reset() changes no tensor returned earlier, and a write by
\* the caller into a returned tensor does not change the instance's state.
C14_ReturnedNotShared ==
    /\ last \in {"forward", "reset"} =>
          \A ref \in held : ref <= Len(before) => heap[ref] = before[ref]
    /\ last = "write" => Value(heap, this) = Value(before, this)

\* ==================================================== the example script
\* Sizes of the two MNIST splits (60000 and 10000 in the data set) and the
\* most epochs asked for.
TrainImages == 5
TestImages == 3
MaxEpochs == 2

BatchSizes == {2, 3}

\* The gradient of one batch's loss with respect to the parameter: the net
\* and the loss are outside this script, any of these values may come.
Gradients == {-1, 0, 1}

\* learning_rate (line 25), an integer here
learning_rate == 1

\* torch.utils.data.DataLoader: the sizes of the batches it yields.
DataLoader(images, size, drop_last) ==
    LET full == images \div size
        rest == images % size
    IN  [b \in 1..(IF rest = 0 \/ drop_last THEN full ELSE full + 1) |->
            IF b <= full THEN size ELSE rest]

\* Lines 38-46 and 47-55
train_data_loader == DataLoader(TrainImages, batch_size, TRUE)
test_data_loader == DataLoader(TestImages, batch_size, FALSE)

\* Line 87: the loader the evaluation loop iterates.
EvalLoaderName == "train_data_loader"
EvalLoader == train_data_loader

InitScript ==
    /\ IdleTransformer
    /\ IdleObjects
    /\ pc = "train"
    /\ batch_size \in BatchSizes
    /\ train_epoch \in 1..MaxEpochs
    /\ epoch = 0
    /\ batch_index = 0
    /\ weight = 0
    /\ grad = 0
    /\ loss_grad = 0
    /\ applied = 0
    /\ train_times = 0
    /\ correct_num = 0
    /\ img_num = 0
    /\ logged = NoRecord

\* Lines 68-82, one iteration: loss.backward() adds the gradient of this
\* batch's loss to .grad, optimizer.step() moves the parameter by
\* learning_rate * .grad. Nothing sets .grad back to zero.
TrainBatch ==
    \E gradient \in Gradients :
        /\ pc = "train"
        /\ epoch < train_epoch
        /\ batch_index < Len(train_data_loader)
        /\ loss_grad' = gradient
        /\ grad' = grad + gradient
        /\ applied' = grad + gradient
        /\ weight' = weight - learning_rate * (grad + gradient)
        /\ train_times' = train_times + 1
        /\ batch_index' = batch_index + 1
        /\ UNCHANGED <<pc, batch_size, train_epoch, epoch, correct_num,
                       img_num, logged, vars, objects>>

\* Lines 83-86: the training loader is exhausted, evaluation starts.
StartEval ==
    /\ pc = "train"
    /\ epoch < train_epoch
    /\ batch_index = Len(train_data_loader)
    /\ pc' = "eval"
    /\ batch_index' = 0
    /\ correct_num' = 0
    /\ img_num' = 0
    /\ UNCHANGED <<batch_size, train_epoch, epoch, weight, grad, loss_grad,
                   applied, train_times, logged, vars, objects>>

\* Lines 87-94, one iteration: some of the batch's images are classified
\* right.
EvalBatch ==
    /\ pc = "eval"
    /\ batch_index < Len(EvalLoader)
    /\ \E right \in 0..EvalLoader[batch_index + 1] :
          correct_num' = correct_num + right
    /\ img_num' = img_num + EvalLoader[batch_index + 1]
    /\ batch_index' = batch_index + 1
    /\ UNCHANGED <<pc, batch_size, train_epoch, epoch, weight, grad, loss_grad,
                   applied, train_times, logged, vars, objects>>

\* Lines 95-97: test_acc = correct_num / img_num is written under the tag
\* 'test_acc' and printed; the next epoch starts, or main() returns.
LogTestAcc ==
    /\ pc = "eval"
    /\ batch_index = Len(EvalLoader)
    /\ logged' = [tag |-> "test_acc", correct |-> correct_num,
                  total |-> img_num, loader |-> EvalLoaderName]
    /\ epoch' = epoch + 1
    /\ pc' = IF epoch + 1 < train_epoch THEN "train" ELSE "done"
    /\ batch_index' = 0
    /\ UNCHANGED <<batch_size, train_epoch, weight, grad, loss_grad, applied,
                   train_times, correct_num, img_num, vars, objects>>

NextScript == TrainBatch \/ StartEval \/ EvalBatch \/ LogTestAcc

SpecScript == InitScript /\ [][NextScript]_<<vars, objects, script>>

\* C17: the gradient an optimizer.step() applies is the gradient of that
\* iteration's loss only; nothing of earlier iterations carries over.
C17_StepUsesOwnGradient ==
    train_times > 0 => applied = loss_grad

\* C18: the value written as 'test_acc' is the accuracy over the batches of
\* test_data_loader: every test image counted, and no other.
C18_TestAccOverTestData ==
    logged.tag = "test_acc" =>
        /\ logged.loader = "test_data_loader"
        /\ logged.total = TestImages

====
